---- MODULE Spec2Model ----
(***************************************************************************)
(* Expense tracker (src/app.py): a Flask application that keeps expenses   *)
(* in a flat file EXPENSE_FILE, one "name,amount,category" line per        *)
(* record, and serves an aggregate snapshot (get_expense_data) and a bar   *)
(* chart (generate_chart) computed from that file on every request.        *)
(*                                                                         *)
(* Two specifications over the same state:                                 *)
(*   Spec      one request at a time, each handler one atomic action;      *)
(*   SpecConc  several worker threads, each handler split at its file      *)
(*             system calls (exists / open / read / remove).               *)
(*                                                                         *)
(* Numbers.  Amounts are Python floats.  A float is modelled as a record   *)
(* [k, n, d]: k = "fin" with the exact value n/d (d >= 1, lowest terms),   *)
(* or k = "inf", "-inf", "nan" (n = 0, d = 1).  The arithmetic on the non- *)
(* finite values is IEEE 754's; the rounding of finite results is not      *)
(* modelled (finite arithmetic is exact).                                  *)
(*                                                                         *)
(* Texts.  Form fields are drawn from small sets of texts that hold no     *)
(* comma and no line break, so that one stored line is one record of       *)
(* three fields.                                                           *)
(***************************************************************************)
EXTENDS Integers, Sequences, FiniteSets, TLC

VARIABLES
    fileExists,   \* os.path.exists(EXPENSE_FILE)
    fileRows,     \* the lines of EXPENSE_FILE, in order: [name, amount, category]
    today,        \* datetime.datetime.now(): [day, days_in_month]
    resp,         \* the response of the request that completed last
    sinceClear,   \* history: clear_all removed the file and no row was appended since
    reads,        \* history of Spec: the last two snapshots read (and when) since the file last changed
    pc,           \* SpecConc: each worker's position in its handler
    loc           \* SpecConc: each worker's local variables

vars == <<fileExists, fileRows, today, resp, sinceClear, reads, pc, loc>>

(***************************************************************************)
(* Bounds and inputs                                                       *)
(***************************************************************************)
\* Most lines the file holds
MaxRows == 2
\* The clock starts at most this many days before the end of the month
MaxDaysLeft == 2
\* Worker threads of SpecConc
NumWorkers == 2

EXPENSE_FILE == "expenses.csv"
BUDGET == 2000

\* request.form['name'], request.form['category'], request.form['amount']
Names == {"", "tea"}
Categories == {"", "Food", "Bus"}
AmountTexts == {"abc", "nan", "inf", "-inf", "5", "2500"}

\* The submitted forms: an ordinary one, and every form that differs from it
\* in one field
BaseForm == [name |-> "tea", amount |-> "5", category |-> "Food"]
Forms ==
    { f \in [name : Names, amount : AmountTexts, category : Categories] :
        \/ f.name = BaseForm.name /\ f.amount = BaseForm.amount
        \/ f.name = BaseForm.name /\ f.category = BaseForm.category
        \/ f.amount = BaseForm.amount /\ f.category = BaseForm.category }

\* calendar.monthrange(year, month)[1] of the months the clock is drawn from
MonthLengths == {28, 31}

(***************************************************************************)
(* Floats                                                                  *)
(***************************************************************************)
Fin(n) == [k |-> "fin", n |-> n, d |-> 1]
NaN == [k |-> "nan", n |-> 0, d |-> 1]
PosInf == [k |-> "inf", n |-> 0, d |-> 1]
NegInf == [k |-> "-inf", n |-> 0, d |-> 1]

Abs(i) == IF i < 0 THEN -i ELSE i

RECURSIVE Gcd(_, _)
Gcd(a, b) == IF b = 0 THEN a ELSE Gcd(b, a % b)

\* x + y on floats
FAdd(x, y) ==
    IF x.k = "nan" \/ y.k = "nan" THEN NaN
    ELSE IF x.k = "fin" /\ y.k = "fin" THEN Fin(x.n + y.n)
    ELSE IF x.k = "fin" THEN y
    ELSE IF y.k = "fin" THEN x
    ELSE IF x.k = y.k THEN x
    ELSE NaN

\* -x on floats
FNeg(x) ==
    CASE x.k = "fin" -> Fin(-x.n)
      [] x.k = "inf" -> NegInf
      [] x.k = "-inf" -> PosInf
      [] OTHER -> NaN

\* x - y on floats
FSub(x, y) == FAdd(x, FNeg(y))

\* x > 0 on floats (False for nan)
FPositive(x) == x.k = "inf" \/ (x.k = "fin" /\ x.n > 0)

\* x >= y on floats (False when either is nan)
FGe(x, y) ==
    /\ x.k # "nan"
    /\ y.k # "nan"
    /\ \/ x.k = "inf"
       \/ y.k = "-inf"
       \/ x.k = "fin" /\ y.k = "fin" /\ x.n * y.d >= y.n * x.d

\* x == y on floats (False when either is nan)
FEq(x, y) == x.k # "nan" /\ y.k # "nan" /\ x = y

\* x / days for a float x and an integer days >= 1
FDiv(x, days) ==
    IF x.k # "fin" THEN x
    ELSE LET g == Gcd(Abs(x.n), x.d * days)
         IN  [k |-> "fin", n |-> x.n \div g, d |-> (x.d * days) \div g]

(***************************************************************************)
(* Texts and numbers                                                       *)
(***************************************************************************)
\* The decimal literals among the texts of the model: the text, the number it
\* denotes, and whether the text is the one repr(float) gives that number.
Literals ==
    { [text |-> "5", n |-> 5, repr |-> FALSE],
      [text |-> "5.0", n |-> 5, repr |-> TRUE],
      [text |-> "2500", n |-> 2500, repr |-> FALSE],
      [text |-> "2500.0", n |-> 2500, repr |-> TRUE] }

ValueError == [k |-> "ValueError", n |-> 0, d |-> 1]

\* float(text): the float, or ValueError
PyFloat(text) ==
    IF text = "nan" THEN NaN
    ELSE IF text = "inf" THEN PosInf
    ELSE IF text = "-inf" THEN NegInf
    ELSE IF \E l \in Literals : l.text = text
         THEN Fin((CHOOSE l \in Literals : l.text = text).n)
    ELSE ValueError

\* f"{x}" of a float x
PyStr(x) ==
    CASE x.k = "nan" -> "nan"
      [] x.k = "inf" -> "inf"
      [] x.k = "-inf" -> "-inf"
      [] OTHER -> (CHOOSE l \in Literals : l.repr /\ l.n = x.n).text

\* The texts pandas.read_csv reads as a missing value
NaStrings ==
    { "", "#N/A", "#N/A N/A", "#NA", "-1.#IND", "-1.#QNAN", "-NaN", "-nan",
      "1.#IND", "1.#QNAN", "<NA>", "N/A", "NA", "NULL", "NaN", "None", "n/a",
      "nan", "null" }

\* A missing cell of a text column
NA == "<NA>"

\* A cell of a text column as read_csv reads it
ReadText(text) == IF text \in NaStrings THEN NA ELSE text

\* A cell of the amount column after pd.to_numeric(errors='coerce')
ToNumeric(text) ==
    IF text \in NaStrings THEN NaN
    ELSE IF text = "inf" THEN PosInf
    ELSE IF text = "-inf" THEN NegInf
    ELSE IF \E l \in Literals : l.text = text
         THEN Fin((CHOOSE l \in Literals : l.text = text).n)
    ELSE NaN

(***************************************************************************)
(* The file and the data frame                                             *)
(***************************************************************************)
\* Expense(name=..., category=..., amount=...) of expense.py: the object keeps
\* its three arguments as its attributes
Expense(name, category, amount) ==
    [name |-> name, category |-> category, amount |-> amount]

\* f"{new_expense.name},{new_expense.amount},{new_expense.category}\n"
FormatLine(new_expense) ==
    [name |-> new_expense.name, amount |-> PyStr(new_expense.amount),
     category |-> new_expense.category]

\* pd.read_csv(EXPENSE_FILE, header=None, names=[...]) followed by
\* pd.to_numeric(df['amount'], errors='coerce'): the exception raised, or the frame.
\* A file of no lines reads as a frame of no rows: the columns are named.
ReadCsv(exists, rows) ==
    IF ~exists THEN [exc |-> "FileNotFoundError", frame |-> <<>>]
    ELSE [exc |-> "none",
          frame |-> [i \in 1..Len(rows) |->
                        [name |-> ReadText(rows[i].name),
                         amount |-> ToNumeric(rows[i].amount),
                         category |-> ReadText(rows[i].category)]]]

\* Whether column col of frame row r holds a missing value
IsNull(r, col) ==
    CASE col = "name" -> r.name = NA
      [] col = "amount" -> r.amount = NaN
      [] col = "category" -> r.category = NA

\* df.dropna(subset=subset)
DropNa(frame, subset) ==
    SelectSeq(frame, LAMBDA r : \A col \in subset : ~IsNull(r, col))

AllColumns == {"name", "amount", "category"}

\* The columns get_expense_data's dropna() looks at
AggregatorSubset == AllColumns

\* The columns generate_chart's dropna(subset=...) looks at
ChartSubset == {"amount", "category"}

\* df['amount'].sum()
RECURSIVE SumAmounts(_)
SumAmounts(frame) ==
    IF frame = <<>> THEN Fin(0)
    ELSE FAdd(SumAmounts(SubSeq(frame, 1, Len(frame) - 1)), frame[Len(frame)].amount)

\* df.groupby('category')['amount'].sum(): rows with a missing key form no group
GroupBySum(frame) ==
    LET keys == {frame[i].category : i \in 1..Len(frame)} \ {NA}
    IN  [c \in keys |-> SumAmounts(SelectSeq(frame, LAMBDA r : r.category = c))]

Max(a, b) == IF a >= b THEN a ELSE b

\* max(1, days_in_month - now.day)
RemainingDays(now) == Max(1, now.days_in_month - now.day)

\* remaining_budget / remaining_days if remaining_budget > 0 else 0
DailyBudget(remaining_budget, now) ==
    IF FPositive(remaining_budget)
    THEN FDiv(remaining_budget, RemainingDays(now))
    ELSE Fin(0)

\* get_expense_data when the file is absent
NoData ==
    [expenses_list |-> <<>>, category_totals |-> <<>>, total_spent |-> Fin(0),
     remaining_budget |-> Fin(BUDGET), daily_budget |-> Fin(0), total_expenses |-> 0]

\* get_expense_data returning daily_budget and remaining_budget in each other's place
Aggregate_Swapped(frame, now) ==
    LET expenses_df == DropNa(frame, AggregatorSubset)
        total_spent == SumAmounts(expenses_df)
        remaining_budget == FSub(Fin(BUDGET), total_spent)
    IN  [expenses_list |-> expenses_df,
         category_totals |-> GroupBySum(expenses_df),
         total_spent |-> total_spent,
         remaining_budget |-> DailyBudget(remaining_budget, now),
         daily_budget |-> remaining_budget,
         total_expenses |-> Len(expenses_df)]

\* get_expense_data from the frame on
Aggregate(frame, now) ==
    LET expenses_df == DropNa(frame, AggregatorSubset)
        total_spent == SumAmounts(expenses_df)
        remaining_budget == FSub(Fin(BUDGET), total_spent)
    IN  [expenses_list |-> expenses_df,
         category_totals |-> GroupBySum(expenses_df),
         total_spent |-> total_spent,
         remaining_budget |-> remaining_budget,
         daily_budget |-> DailyBudget(remaining_budget, now),
         total_expenses |-> Len(expenses_df)]

\* get_expense_data after its os.path.exists test found the file:
\* the exception it raises, or the snapshot it returns
ReadAndAggregate(exists, rows, now) ==
    LET csv == ReadCsv(exists, rows)
    IN  IF csv.exc # "none" THEN [exc |-> csv.exc, data |-> NoData]
        ELSE [exc |-> "none", data |-> Aggregate(csv.frame, now)]

\* get_expense_data, the test and the read on the same file state
get_expense_data(exists, rows, now) ==
    IF ~exists THEN [exc |-> "none", data |-> NoData]
    ELSE ReadAndAggregate(exists, rows, now)

(***************************************************************************)
(* generate_chart                                                          *)
(***************************************************************************)
\* The orders Series.sort_values(ascending=False) may give the groups:
\* descending by sum, a sum that is nan last, ties in any order
SortValues(agg) ==
    LET n == Cardinality(DOMAIN agg)
    IN  { s \in [1..n -> DOMAIN agg] :
            /\ \A i, j \in 1..n : i # j => s[i] # s[j]
            /\ \A i, j \in 1..n :
                 i < j => \/ agg[s[j]] = NaN
                          \/ FGe(agg[s[i]], agg[s[j]]) }

\* agg.plot(kind="bar") in the order given: one patch per group
Bars(agg, order) ==
    [i \in 1..Len(order) |-> [category |-> order[i], height |-> agg[order[i]]]]

\* generate_chart after its os.path.exists test found the file: the responses
\* it may give (jsonify(...), status)
ChartFromFile(exists, rows, now) ==
    LET csv == ReadCsv(exists, rows)
        df == DropNa(csv.frame, ChartSubset)
        agg == GroupBySum(df)
    IN  IF csv.exc # "none"
        THEN { [handler |-> "generate_chart", status |-> 500, outcome |-> "handled",
                at |-> now, error |-> csv.exc] }
        ELSE IF df = <<>>
        THEN { [handler |-> "generate_chart", status |-> 404, outcome |-> "handled",
                at |-> now, error |-> "No valid expenses found"] }
        ELSE { [handler |-> "generate_chart", status |-> 200, outcome |-> "ok",
                at |-> now, chart |-> Bars(agg, order)] : order \in SortValues(agg) }

\* generate_chart, the test and the read on the same file state: its responses
ChartResponses(exists, rows, now) ==
    IF ~exists
    THEN { [handler |-> "generate_chart", status |-> 404, outcome |-> "handled",
            at |-> now, error |-> "No expenses found"] }
    ELSE ChartFromFile(exists, rows, now)

(***************************************************************************)
(* The responses of the other handlers                                     *)
(***************************************************************************)
\* index: render_template of the snapshot; an exception of get_expense_data
\* leaves the view function (there is no try around the call)
IndexResponse(r, now) ==
    IF r.exc # "none"
    THEN [handler |-> "index", status |-> 500, outcome |-> "uncaught",
          at |-> now, error |-> r.exc]
    ELSE [handler |-> "index", status |-> 200, outcome |-> "ok",
          at |-> now, data |-> r.data]

\* get_summary: jsonify of the snapshot, or jsonify({'error': ...}), 500
SummaryResponse(r, now) ==
    IF r.exc # "none"
    THEN [handler |-> "get_summary", status |-> 500, outcome |-> "handled",
          at |-> now, error |-> r.exc]
    ELSE [handler |-> "get_summary", status |-> 200, outcome |-> "ok",
          at |-> now, data |-> r.data]

\* export_data when its os.path.exists test finds no file
ExportNothing(now) ==
    [handler |-> "export_data", status |-> 302, outcome |-> "handled",
     at |-> now, flash |-> "No expenses to export!"]

\* export_data after get_expense_data
ExportResponse(r, now) ==
    IF r.exc # "none"
    THEN [handler |-> "export_data", status |-> 302, outcome |-> "handled",
          at |-> now, flash |-> "Error exporting data", error |-> r.exc]
    ELSE [handler |-> "export_data", status |-> 302, outcome |-> "ok",
          at |-> now, flash |-> "Data exported!", data |-> r.data]

\* add_expense: the flash of each branch
AddInvalid(now) ==
    [handler |-> "add_expense", status |-> 302, outcome |-> "handled",
     at |-> now, flash |-> "Please enter a valid amount!"]

AddSuccess(now, line) ==
    [handler |-> "add_expense", status |-> 302, outcome |-> "ok",
     at |-> now, flash |-> "added successfully!", line |-> line]

\* clear_all: the flash of each branch
ClearSuccess(now) ==
    [handler |-> "clear_all", status |-> 302, outcome |-> "ok",
     at |-> now, flash |-> "All expenses cleared successfully!"]

ClearNothing(now) ==
    [handler |-> "clear_all", status |-> 302, outcome |-> "handled",
     at |-> now, flash |-> "No expenses to clear!"]

ClearError(now) ==
    [handler |-> "clear_all", status |-> 302, outcome |-> "handled",
     at |-> now, flash |-> "Error clearing expenses", error |-> "FileNotFoundError"]

(***************************************************************************)
(* The effects on the file                                                 *)
(***************************************************************************)
\* with open(EXPENSE_FILE, 'w'): the file exists and is empty
CreateRows(rows) == <<>>

\* with open(EXPENSE_FILE, 'a'): f.write(line): the rows after the write
\* (a file that is absent is created by the open)
AppendRows(exists, rows, line) ==
    IF exists THEN Append(rows, line) ELSE <<line>>

\* Whether float(amount) raises ValueError
Rejected(amount) == PyFloat(amount) = ValueError

\* os.remove left out of clear_all
AfterRemove_Kept(exists) == exists

\* os.path.exists(EXPENSE_FILE) after os.remove(EXPENSE_FILE)
AfterRemove(exists) == FALSE

(***************************************************************************)
(* State                                                                   *)
(***************************************************************************)
Workers == 1..NumWorkers

\* The dates the clock may show
Dates ==
    { d \in [day : 1..31, days_in_month : MonthLengths] :
        d.day <= d.days_in_month /\ d.days_in_month - d.day <= MaxDaysLeft }

NoLine == [name |-> "", amount |-> "", category |-> ""]

Init ==
    /\ fileExists = FALSE
    /\ fileRows = <<>>
    /\ today \in Dates
    /\ resp = [handler |-> "none", status |-> 0, outcome |-> "ok", at |-> today]
    /\ sinceClear = FALSE
    /\ reads = <<>>
    /\ pc = [w \in Workers |-> "idle"]
    /\ loc = [w \in Workers |-> NoLine]

\* The clock moves to the next day of the month
Tick ==
    /\ today.day < today.days_in_month
    /\ today' = [today EXCEPT !.day = @ + 1]
    /\ UNCHANGED <<fileExists, fileRows, resp, sinceClear, reads, pc, loc>>

\* Whether a response carries a snapshot of get_expense_data
HasData(r) ==
    r.handler \in {"index", "get_summary", "export_data"} /\ r.outcome = "ok"

\* The history of reads after response r
Remember(rs, r) ==
    LET read == [at |-> r.at, data |-> r.data]
    IN  IF ~HasData(r) THEN rs
        ELSE IF rs = <<>> THEN <<read>>
        ELSE <<rs[Len(rs)], read>>

(***************************************************************************)
(* Spec: one request at a time                                             *)
(***************************************************************************)
index ==
    /\ resp' = IndexResponse(get_expense_data(fileExists, fileRows, today), today)
    /\ reads' = Remember(reads, resp')
    /\ UNCHANGED <<fileExists, fileRows, today, sinceClear, pc, loc>>

get_summary ==
    /\ resp' = SummaryResponse(get_expense_data(fileExists, fileRows, today), today)
    /\ reads' = Remember(reads, resp')
    /\ UNCHANGED <<fileExists, fileRows, today, sinceClear, pc, loc>>

export_data ==
    /\ resp' = IF ~fileExists THEN ExportNothing(today)
               ELSE ExportResponse(get_expense_data(fileExists, fileRows, today), today)
    /\ reads' = Remember(reads, resp')
    /\ UNCHANGED <<fileExists, fileRows, today, sinceClear, pc, loc>>

generate_chart ==
    /\ resp' \in ChartResponses(fileExists, fileRows, today)
    /\ UNCHANGED <<fileExists, fileRows, today, sinceClear, reads, pc, loc>>

add_expense(name, amount, category) ==
    /\ IF Rejected(amount)
       THEN /\ resp' = AddInvalid(today)
            /\ UNCHANGED <<fileExists, fileRows, sinceClear, reads>>
       ELSE /\ Len(fileRows) < MaxRows
            /\ LET line == FormatLine(Expense(name, category, PyFloat(amount)))
                   created == IF fileExists THEN fileRows ELSE CreateRows(fileRows)
               IN  /\ fileRows' = AppendRows(TRUE, created, line)
                   /\ resp' = AddSuccess(today, line)
            /\ fileExists' = TRUE
            /\ sinceClear' = FALSE
            /\ reads' = <<>>
    /\ UNCHANGED <<today, pc, loc>>

clear_all ==
    /\ IF fileExists
       THEN /\ fileExists' = AfterRemove(fileExists)
            /\ fileRows' = IF fileExists' THEN fileRows ELSE <<>>
            /\ sinceClear' = TRUE
            /\ reads' = <<>>
            /\ resp' = ClearSuccess(today)
       ELSE /\ resp' = ClearNothing(today)
            /\ UNCHANGED <<fileExists, fileRows, sinceClear, reads>>
    /\ UNCHANGED <<today, pc, loc>>

Next ==
    \/ index
    \/ get_summary
    \/ export_data
    \/ generate_chart
    \/ \E f \in Forms : add_expense(f.name, f.amount, f.category)
    \/ clear_all
    \/ Tick

Spec == Init /\ [][Next]_vars

(***************************************************************************)
(* SpecConc: worker threads, a handler split at its file system calls      *)
(***************************************************************************)
\* The worker takes its next request / moves on in its handler
Goto(w, label) == pc' = [pc EXCEPT ![w] = label]

\* The worker's request is answered
Respond(w, r) ==
    /\ resp' = r
    /\ pc' = [pc EXCEPT ![w] = "idle"]

\* The lines the workers are about to write
Pending == Cardinality({w \in Workers : pc[w] \in {"add_create", "add_append"}})

\* index, get_expense_data: if not os.path.exists(EXPENSE_FILE)
IndexBegin(w) ==
    /\ pc[w] = "idle"
    /\ IF ~fileExists
       THEN Respond(w, IndexResponse(get_expense_data(FALSE, fileRows, today), today))
       ELSE Goto(w, "index_read") /\ UNCHANGED resp
    /\ UNCHANGED <<fileExists, fileRows, today, sinceClear, reads, loc>>

\* index, get_expense_data: pd.read_csv and the rest
IndexRead(w) ==
    /\ pc[w] = "index_read"
    /\ Respond(w, IndexResponse(ReadAndAggregate(fileExists, fileRows, today), today))
    /\ UNCHANGED <<fileExists, fileRows, today, sinceClear, reads, loc>>

\* get_summary, get_expense_data: if not os.path.exists(EXPENSE_FILE)
SummaryBegin(w) ==
    /\ pc[w] = "idle"
    /\ IF ~fileExists
       THEN Respond(w, SummaryResponse(get_expense_data(FALSE, fileRows, today), today))
       ELSE Goto(w, "summary_read") /\ UNCHANGED resp
    /\ UNCHANGED <<fileExists, fileRows, today, sinceClear, reads, loc>>

\* get_summary, get_expense_data: pd.read_csv and the rest
SummaryRead(w) ==
    /\ pc[w] = "summary_read"
    /\ Respond(w, SummaryResponse(ReadAndAggregate(fileExists, fileRows, today), today))
    /\ UNCHANGED <<fileExists, fileRows, today, sinceClear, reads, loc>>

\* export_data: if not os.path.exists(EXPENSE_FILE)
ExportBegin(w) ==
    /\ pc[w] = "idle"
    /\ IF ~fileExists
       THEN Respond(w, ExportNothing(today))
       ELSE Goto(w, "export_call") /\ UNCHANGED resp
    /\ UNCHANGED <<fileExists, fileRows, today, sinceClear, reads, loc>>

\* export_data, get_expense_data: if not os.path.exists(EXPENSE_FILE)
ExportCall(w) ==
    /\ pc[w] = "export_call"
    /\ IF ~fileExists
       THEN Respond(w, ExportResponse(get_expense_data(FALSE, fileRows, today), today))
       ELSE Goto(w, "export_read") /\ UNCHANGED resp
    /\ UNCHANGED <<fileExists, fileRows, today, sinceClear, reads, loc>>

\* export_data, get_expense_data: pd.read_csv and the rest
ExportRead(w) ==
    /\ pc[w] = "export_read"
    /\ Respond(w, ExportResponse(ReadAndAggregate(fileExists, fileRows, today), today))
    /\ UNCHANGED <<fileExists, fileRows, today, sinceClear, reads, loc>>

\* generate_chart: if not os.path.exists(EXPENSE_FILE)
ChartBegin(w) ==
    /\ pc[w] = "idle"
    /\ IF ~fileExists
       THEN \E r \in ChartResponses(FALSE, fileRows, today) : Respond(w, r)
       ELSE Goto(w, "chart_read") /\ UNCHANGED resp
    /\ UNCHANGED <<fileExists, fileRows, today, sinceClear, reads, loc>>

\* generate_chart: pd.read_csv and the rest
ChartRead(w) ==
    /\ pc[w] = "chart_read"
    /\ \E r \in ChartFromFile(fileExists, fileRows, today) : Respond(w, r)
    /\ UNCHANGED <<fileExists, fileRows, today, sinceClear, reads, loc>>

\* add_expense: float(amount), then if not os.path.exists(EXPENSE_FILE)
AddBegin(w, name, amount, category) ==
    /\ pc[w] = "idle"
    /\ IF Rejected(amount)
       THEN /\ Respond(w, AddInvalid(today))
            /\ UNCHANGED loc
       ELSE /\ Len(fileRows) + Pending < MaxRows
            /\ loc' = [loc EXCEPT ![w] = FormatLine(Expense(name, category, PyFloat(amount)))]
            /\ Goto(w, IF fileExists THEN "add_append" ELSE "add_create")
            /\ UNCHANGED resp
    /\ UNCHANGED <<fileExists, fileRows, today, sinceClear, reads>>

\* add_expense: with open(EXPENSE_FILE, 'w')
AddCreate(w) ==
    /\ pc[w] = "add_create"
    /\ fileExists' = TRUE
    /\ fileRows' = CreateRows(fileRows)
    /\ Goto(w, "add_append")
    /\ UNCHANGED <<today, resp, sinceClear, reads, loc>>

\* add_expense: with open(EXPENSE_FILE, 'a'), f.write, flash
AddAppend(w) ==
    /\ pc[w] = "add_append"
    /\ fileExists' = TRUE
    /\ fileRows' = AppendRows(fileExists, fileRows, loc[w])
    /\ sinceClear' = FALSE
    /\ Respond(w, AddSuccess(today, loc[w]))
    /\ loc' = [loc EXCEPT ![w] = NoLine]
    /\ UNCHANGED <<today, reads>>

\* clear_all: if os.path.exists(EXPENSE_FILE)
ClearBegin(w) ==
    /\ pc[w] = "idle"
    /\ IF fileExists
       THEN Goto(w, "clear_remove") /\ UNCHANGED resp
       ELSE Respond(w, ClearNothing(today))
    /\ UNCHANGED <<fileExists, fileRows, today, sinceClear, reads, loc>>

\* clear_all: os.remove(EXPENSE_FILE), which raises when the file is gone
ClearRemove(w) ==
    /\ pc[w] = "clear_remove"
    /\ IF fileExists
       THEN /\ fileExists' = AfterRemove(fileExists)
            /\ fileRows' = IF fileExists' THEN fileRows ELSE <<>>
            /\ sinceClear' = TRUE
            /\ Respond(w, ClearSuccess(today))
       ELSE /\ Respond(w, ClearError(today))
            /\ UNCHANGED <<fileExists, fileRows, sinceClear>>
    /\ UNCHANGED <<today, reads, loc>>

NextConc ==
    \E w \in Workers :
        \/ IndexBegin(w)
        \/ IndexRead(w)
        \/ SummaryBegin(w)
        \/ SummaryRead(w)
        \/ ExportBegin(w)
        \/ ExportCall(w)
        \/ ExportRead(w)
        \/ ChartBegin(w)
        \/ ChartRead(w)
        \/ \E f \in Forms : AddBegin(w, f.name, f.amount, f.category)
        \/ AddCreate(w)
        \/ AddAppend(w)
        \/ ClearBegin(w)
        \/ ClearRemove(w)

SpecConc == Init /\ [][NextConc]_vars

(***************************************************************************)
(* Properties.  Under Spec every change of the file replaces resp, so a    *)
(* snapshot or a chart held by resp was computed from the file as it is.   *)
(***************************************************************************)
\* A stored line whose amount field parses as a number
Parses(line) == ToNumeric(line.amount) # NaN

\* The stored lines whose amount parses, and the sum of their amounts
ParsingRows == SelectSeq(fileRows, Parses)

RECURSIVE SumOfLines(_)
SumOfLines(lines) ==
    IF lines = <<>> THEN Fin(0)
    ELSE FAdd(SumOfLines(SubSeq(lines, 1, Len(lines) - 1)),
              ToNumeric(lines[Len(lines)].amount))

\* The sum of the values of a category mapping
RECURSIVE SumOfValues(_)
SumOfValues(totals) ==
    IF DOMAIN totals = {} THEN Fin(0)
    ELSE LET c == CHOOSE c \in DOMAIN totals : TRUE
         IN  FAdd(totals[c], SumOfValues([x \in DOMAIN totals \ {c} |-> totals[x]]))

\* C1: every snapshot counts and sums exactly the stored records whose amount
\* parses as a number: total_expenses is their number and total_spent the sum
\* of their amounts, whatever their name and category.
C1_CountsEveryParsingRow ==
    HasData(resp) =>
        /\ resp.data.total_expenses = Len(ParsingRows)
        /\ resp.data.total_spent = SumOfLines(ParsingRows)

\* C2: a submission whose amount text does not parse as a finite number is
\* answered with the validation failure and leaves the file as it was
\* (no line appended, an absent file still absent).
C2_NonFiniteRejected ==
    [][\A f \in Forms :
          (PyFloat(f.amount).k # "fin" /\ add_expense(f.name, f.amount, f.category))
              => /\ resp' = AddInvalid(today)
                 /\ fileExists' = fileExists
                 /\ fileRows' = fileRows]_vars

\* C3: generate_chart answers 404 when the file is absent and when no stored
\* line has a parseable amount; when some line has, it answers a chart with
\* one bar per distinct category of those lines, by descending category sum.
C3_ChartContract ==
    resp.handler = "generate_chart" =>
        IF ~fileExists \/ ParsingRows = <<>>
        THEN resp.status = 404
        ELSE /\ resp.status = 200
             /\ resp.chart # <<>>
             /\ {resp.chart[i].category : i \in 1..Len(resp.chart)}
                    = {ParsingRows[i].category : i \in 1..Len(ParsingRows)}
             /\ Len(resp.chart) = Cardinality({ParsingRows[i].category : i \in 1..Len(ParsingRows)})
             /\ \A i, j \in 1..Len(resp.chart) :
                    i < j => FGe(resp.chart[i].height, resp.chart[j].height)

\* C4: once clear_all has removed the file, no stored record is left, and
\* every snapshot read until the next line is appended reports
\* total_expenses = 0, total_spent = 0 and an empty category mapping.
C4_ClearedReadsZero ==
    sinceClear =>
        /\ fileRows = <<>>
        /\ HasData(resp) =>
              /\ resp.data.total_expenses = 0
              /\ resp.data.total_spent = Fin(0)
              /\ DOMAIN resp.data.category_totals = {}
        /\ \A i \in 1..Len(reads) :
              /\ reads[i].data.total_expenses = 0
              /\ reads[i].data.total_spent = Fin(0)
              /\ DOMAIN reads[i].data.category_totals = {}

\* C4 witness: a snapshot was read after clear_all removed a file that held records
C4_Witness ==
    /\ sinceClear
    /\ resp.handler = "get_summary"
    /\ resp.outcome = "ok"
    /\ Len(reads) = 2

\* C5: in every snapshot, daily_budget is remaining_budget divided by
\* max(1, days_in_month - day) when remaining_budget > 0 and 0 otherwise,
\* with remaining_budget = BUDGET - total_spent.
C5_DailyBudgetFormula ==
    HasData(resp) =>
        LET d == resp.data
            days == IF resp.at.days_in_month - resp.at.day >= 1
                    THEN resp.at.days_in_month - resp.at.day ELSE 1
        IN  /\ d.remaining_budget = FSub(Fin(BUDGET), d.total_spent)
            /\ d.daily_budget = IF FPositive(d.remaining_budget)
                                THEN FDiv(d.remaining_budget, days)
                                ELSE Fin(0)

\* The fields of a snapshot that C6 compares
Dated(d) ==
    <<d.total_spent, d.remaining_budget, d.daily_budget, d.total_expenses, d.category_totals>>

Undated(d) ==
    <<d.total_spent, d.remaining_budget, d.total_expenses, d.category_totals>>

\* C6 as stated: two snapshots read with no change of the file in between
\* agree in every field, however much time passed between them.
C6_SameWhateverTheTime ==
    Len(reads) = 2 => Dated(reads[1].data) = Dated(reads[2].data)

\* C6 as amended: two snapshots read with no change of the file in between
\* agree in total_spent, remaining_budget, total_expenses and category_totals
\* however much time passed, and in daily_budget too when both were read on
\* the same date.
C6_SameUpToTheDate ==
    Len(reads) = 2 =>
        /\ Undated(reads[1].data) = Undated(reads[2].data)
        /\ reads[1].at = reads[2].at => Dated(reads[1].data) = Dated(reads[2].data)

\* C6 witness: two reads of an unchanged file with records, on different dates,
\* whose daily budgets differ
C6_Witness ==
    /\ Len(reads) = 2
    /\ reads[1].at # reads[2].at
    /\ reads[1].data.total_expenses > 0
    /\ reads[1].data.daily_budget # reads[2].data.daily_budget

\* C7: no request ends with an exception that leaves its view function,
\* in any interleaving of the workers.
C7_NoUncaughtException == resp.outcome # "uncaught"

\* C8: in every snapshot the category totals add up to total_spent, and the
\* records counted in total_expenses are exactly those grouped in a category.
C8_CategoriesAddUp ==
    HasData(resp) =>
        LET d == resp.data
        IN  /\ FEq(SumOfValues(d.category_totals), d.total_spent)
            /\ \A i \in 1..Len(d.expenses_list) :
                  d.expenses_list[i].category \in DOMAIN d.category_totals

\* C9: a submission that add_expense accepts raises total_expenses by one and
\* total_spent by the submitted amount in the snapshot of the file after it,
\* compared with the snapshot of the file before it.
C9_AcceptedIsCounted ==
    [][\A f \in Forms :
          (~Rejected(f.amount) /\ add_expense(f.name, f.amount, f.category))
              => LET before == get_expense_data(fileExists, fileRows, today).data
                     after == get_expense_data(fileExists', fileRows', today').data
                 IN  /\ after.total_expenses = before.total_expenses + 1
                     /\ after.total_spent = FAdd(before.total_spent, PyFloat(f.amount))]_vars

\* C10: generate_chart answers 404 exactly when the snapshot of the same file
\* has total_expenses = 0, and otherwise plots the snapshot's category_totals.
C10_ChartAgreesWithSnapshot ==
    resp.handler = "generate_chart" =>
        LET d == get_expense_data(fileExists, fileRows, resp.at).data
        IN  /\ (resp.status = 404) <=> (d.total_expenses = 0)
            /\ resp.status = 200 =>
                  /\ {resp.chart[i].category : i \in 1..Len(resp.chart)}
                        = DOMAIN d.category_totals
                  /\ \A i \in 1..Len(resp.chart) :
                        resp.chart[i].height = d.category_totals[resp.chart[i].category]

====
